---- MODULE Spec2Model ----
(***************************************************************************)
(* Lifecycle and identity model of tirtha_bk/tirtha/models.py: the Django  *)
(* models Mesh, Contributor, Contribution, Image, ARK and Run, their save  *)
(* overrides and the deletion rules their foreign keys declare.            *)
(*                                                                         *)
(* Strings are sequences of one-character strings, so that startswith,     *)
(* replace, concatenation and strftime are computed character by           *)
(* character.  An optional value (a nullable column) is <<>> or <<v>>.     *)
(* A table is a function from primary keys to rows.                        *)
(***************************************************************************)
EXTENDS Naturals, Sequences, FiniteSets

VARIABLES meshes, contributors, contributions, images, arks, runs, last, call

vars == <<meshes, contributors, contributions, images, arks, runs, last, call>>

None == <<>>
Some(x) == <<x>>

(***************************************************************************)
(* Strings                                                                 *)
(***************************************************************************)
StartsWith(s, p) == Len(s) >= Len(p) /\ SubSeq(s, 1, Len(p)) = p

\* str.replace(old, new) for one-character old and new
ReplaceChar(s, old, new) == [i \in 1..Len(s) |-> IF s[i] = old THEN new ELSE s[i]]

Sep == <<"/">>

(***************************************************************************)
(* Timestamps                                                              *)
(***************************************************************************)
T1 == [Y |-> 2024, M |-> 3, D |-> 2, h |-> 10, m |-> 15, s |-> 0]
T2 == [Y |-> 2024, M |-> 11, D |-> 23, h |-> 9, m |-> 5, s |-> 7]
Times == {T1, T2}

Digits == <<"0", "1", "2", "3", "4", "5", "6", "7", "8", "9">>

RECURSIVE ZeroPad(_, _)
ZeroPad(n, w) == IF w = 0 THEN <<>> ELSE ZeroPad(n \div 10, w - 1) \o <<Digits[(n % 10) + 1]>>

(***************************************************************************)
(* Bounds on the tables                                                    *)
(***************************************************************************)
MaxArks == 2

(***************************************************************************)
(* ARK                                                                     *)
(***************************************************************************)
\* f"{self.naan}{self.shoulder}{self.assigned_name}"
ExpectedArk(obj) == obj.naan \o obj.shoulder \o obj.assigned_name

\* The two checks of ARK.save; the first that fails raises ValueError.
ArkShoulderOnly(obj) == StartsWith(obj.shoulder, Sep)
ArkValid(obj) == StartsWith(obj.shoulder, Sep) /\ obj.ark = ExpectedArk(obj)

\* The row Model.save writes for an ARK object.  The primary key `ark` has no
\* default, so save() updates the row with that key when there is one and
\* inserts otherwise.  created_at is auto_now_add: set from the clock on
\* insert, written from the object on update (NOT NULL, so an update from a
\* freshly constructed object, whose created_at is None, is refused).
ArkRow(obj, created) ==
    [naan |-> obj.naan, shoulder |-> obj.shoulder, assigned_name |-> obj.assigned_name,
     url |-> obj.url, metadata |-> obj.metadata, created_at |-> created]

ArkWrite(obj, now) ==
    IF obj.ark \in DOMAIN arks
    THEN [a \in DOMAIN arks |-> IF a = obj.ark THEN ArkRow(obj, obj.created_at[1]) ELSE arks[a]]
    ELSE [a \in DOMAIN arks \cup {obj.ark} |-> IF a = obj.ark THEN ArkRow(obj, now) ELSE arks[a]]

ArkWriteRefused(obj) == obj.ark \in DOMAIN arks /\ obj.created_at = None

ArkSaveWriteFirst(obj, now) ==
    /\ obj.ark \in DOMAIN arks \/ Cardinality(DOMAIN arks) < MaxArks
    /\ IF ArkWriteRefused(obj)
       THEN /\ arks' = arks
            /\ last' = [op |-> "ARK.save", obj |-> obj, result |-> "IntegrityError"]
       ELSE /\ arks' = ArkWrite(obj, now)
            /\ last' = [op |-> "ARK.save", obj |-> obj,
                        result |-> IF ArkValid(obj) THEN "ok" ELSE "ValueError"]
    /\ UNCHANGED <<meshes, contributors, contributions, images, runs>>

ArkSave(obj, now) ==
    /\ obj.ark \in DOMAIN arks \/ Cardinality(DOMAIN arks) < MaxArks
    /\ IF ~ArkValid(obj)
       THEN /\ arks' = arks
            /\ last' = [op |-> "ARK.save", obj |-> obj, result |-> "ValueError"]
       ELSE IF ArkWriteRefused(obj)
       THEN /\ arks' = arks
            /\ last' = [op |-> "ARK.save", obj |-> obj, result |-> "IntegrityError"]
       ELSE /\ arks' = ArkWrite(obj, now)
            /\ last' = [op |-> "ARK.save", obj |-> obj, result |-> "ok"]
    /\ UNCHANGED <<meshes, contributors, contributions, images, runs>>

(***************************************************************************)
(* Mesh                                                                    *)
(***************************************************************************)
DefaultVerboseId == <<"<", "a", "u", "t", "o", ">">>

\* (country + "__" + state + "__" + district + "__" + name).replace(" ", "_")
MeshVerboseIdKeepAssigned(obj) ==
    IF obj.verbose_id # DefaultVerboseId
    THEN obj.verbose_id
    ELSE ReplaceChar(obj.country \o <<"_", "_">> \o obj.state \o <<"_", "_">>
                     \o obj.district \o <<"_", "_">> \o obj.name, " ", "_")
MeshVerboseId(obj) ==
    ReplaceChar(obj.country \o <<"_", "_">> \o obj.state \o <<"_", "_">>
                \o obj.district \o <<"_", "_">> \o obj.name, " ", "_")

MeshRow(obj, vid) ==
    [name |-> obj.name, country |-> obj.country, state |-> obj.state,
     district |-> obj.district, verbose_id |-> vid, status |-> obj.status,
     completed |-> obj.completed, hidden |-> obj.hidden]

\* Model.save on a table: the row with this key is replaced or added.
Upsert(tbl, id, row) == [k \in DOMAIN tbl \cup {id} |-> IF k = id THEN row ELSE tbl[k]]

\* The primary key has a default (ShortUUIDField), so an object that was not
\* loaded from the table is inserted, never used to update.
MeshPkClash(obj) == obj.adding /\ obj.ID \in DOMAIN meshes

\* unique=True on verbose_id
MeshSlugClashByFields(obj, vid) ==
    \E k \in DOMAIN meshes :
        /\ k # obj.ID
        /\ meshes[k].country = obj.country /\ meshes[k].state = obj.state
        /\ meshes[k].district = obj.district /\ meshes[k].name = obj.name
MeshSlugClash(obj, vid) ==
    \E k \in DOMAIN meshes : k # obj.ID /\ meshes[k].verbose_id = vid

\* Mesh.save: the slug is recomputed, the row is written and, when a thumbnail
\* is set, written a second time after the image is resized.
MeshSave(obj) ==
    /\ LET vid == MeshVerboseId(obj)
           once == Upsert(meshes, obj.ID, MeshRow(obj, vid))
       IN IF MeshPkClash(obj) \/ MeshSlugClash(obj, vid)
          THEN /\ meshes' = meshes
               /\ last' = [op |-> "Mesh.save", id |-> obj.ID, result |-> "IntegrityError",
                           assigned |-> obj.verbose_id, adding |-> obj.adding,
                           name |-> obj.name, vid |-> vid]
          ELSE /\ meshes' = IF obj.thumbnail
                            THEN Upsert(once, obj.ID, MeshRow(obj, vid))
                            ELSE once
               /\ last' = [op |-> "Mesh.save", id |-> obj.ID, result |-> "ok",
                           assigned |-> obj.verbose_id, adding |-> obj.adding,
                           name |-> obj.name, vid |-> vid]
    /\ UNCHANGED <<contributors, contributions, images, arks, runs>>

(***************************************************************************)
(* Run                                                                     *)
(***************************************************************************)
StrftimeUnpadded(t) ==
    ZeroPad(t.Y, 4) \o <<"-">> \o ZeroPad(t.M, IF t.M < 10 THEN 1 ELSE 2) \o <<"-">>
    \o ZeroPad(t.D, IF t.D < 10 THEN 1 ELSE 2) \o <<"-">>
    \o ZeroPad(t.h, IF t.h < 10 THEN 1 ELSE 2) \o <<"-">>
    \o ZeroPad(t.m, IF t.m < 10 THEN 1 ELSE 2) \o <<"-">>
    \o ZeroPad(t.s, IF t.s < 10 THEN 1 ELSE 2)
Strftime(t) ==
    ZeroPad(t.Y, 4) \o <<"-">> \o ZeroPad(t.M, 2) \o <<"-">> \o ZeroPad(t.D, 2) \o <<"-">>
    \o ZeroPad(t.h, 2) \o <<"-">> \o ZeroPad(t.m, 2) \o <<"-">> \o ZeroPad(t.s, 2)

\* f"{self.mesh.ID}/cache/{self.started_at.strftime('%Y-%m-%d-%H-%M-%S')}__{str(self.ID)}"
RunDirectory(mesh, started, id) ==
    mesh \o <<"/", "c", "a", "c", "h", "e", "/">> \o Strftime(started) \o <<"_", "_">> \o id

RunRow(obj, started, dir) ==
    [mesh |-> obj.mesh, ark |-> obj.ark, started_at |-> started, ended_at |-> obj.ended_at,
     directory |-> dir, status |-> obj.status]

\* What the database refuses on the first write: a second row with the same
\* primary key (an object that was not loaded is inserted, the key having a
\* default), a mesh or ark reference to a row that does not exist, and a
\* second Run on the same ARK (OneToOneField).
RunWriteRefusedForeignKeyOnly(obj) ==
    \/ obj.adding /\ obj.ID \in DOMAIN runs
    \/ obj.mesh \notin DOMAIN meshes
    \/ obj.ark # None /\ obj.ark[1] \notin DOMAIN arks
RunWriteRefused(obj) ==
    \/ obj.adding /\ obj.ID \in DOMAIN runs
    \/ obj.mesh \notin DOMAIN meshes
    \/ obj.ark # None /\ obj.ark[1] \notin DOMAIN arks
    \/ obj.ark # None /\ \E k \in DOMAIN runs : k # obj.ID /\ runs[k].ark = obj.ark

\* started_at is auto_now_add: the clock on insert, the object's value on update.
RunStartedAt(obj, now) == IF obj.ID \in DOMAIN runs THEN obj.started_at[1] ELSE now

\* Run.save: every field is written, the directory is derived when the object
\* has none, and the directory alone is written again.
RunSave(obj, now) ==
    /\ IF RunWriteRefused(obj)
       THEN /\ runs' = runs
            /\ last' = [op |-> "Run.save", id |-> obj.ID, result |-> "IntegrityError",
                        inserted |-> FALSE, dirEmpty |-> obj.directory = <<>>]
       ELSE LET started == RunStartedAt(obj, now)
                first == Upsert(runs, obj.ID, RunRow(obj, started, obj.directory))
                dir == IF obj.directory = <<>>
                       THEN RunDirectory(obj.mesh, started, obj.ID)
                       ELSE obj.directory
            IN /\ runs' = [first EXCEPT ![obj.ID].directory = dir]
               /\ last' = [op |-> "Run.save", id |-> obj.ID, result |-> "ok",
                           inserted |-> obj.ID \notin DOMAIN runs,
                           dirEmpty |-> obj.directory = <<>>]
    /\ UNCHANGED <<meshes, contributors, contributions, images, arks>>

(***************************************************************************)
(* Run.save write by write                                                 *)
(***************************************************************************)
\* A caller's Run object and where its save() stands: "idle" (no object),
\* "held" (an object, no save under way) or "second" (between the two writes).
\* phase, want, same, derived and disturbed observe a retry: the directory the
\* failed call was about to persist, whether the retry uses the same object,
\* whether it derived the path again, and whether another writer touched the
\* Run meanwhile.
NoCall ==
    [pc |-> "idle",
     obj |-> [ID |-> <<>>, mesh |-> <<>>, ark |-> None, started_at |-> None,
              ended_at |-> None, directory |-> <<>>, status |-> "Processing",
              adding |-> TRUE],
     phase |-> "fresh", want |-> None, same |-> TRUE, derived |-> FALSE,
     disturbed |-> FALSE]


\* A Run object as the ORM loads it from its row.
RunFromRow(id) ==
    [ID |-> id, mesh |-> runs[id].mesh, ark |-> runs[id].ark,
     started_at |-> Some(runs[id].started_at), ended_at |-> runs[id].ended_at,
     directory |-> runs[id].directory, status |-> runs[id].status, adding |-> FALSE]

\* Run(...): a new object in memory, nothing written.
RunConstruct(obj) ==
    /\ call.pc # "second"
    /\ call' = [NoCall EXCEPT !.pc = "held", !.obj = obj]
    /\ last' = [op |-> "Run()", id |-> obj.ID, result |-> "ok"]
    /\ UNCHANGED <<meshes, contributors, contributions, images, arks, runs>>

\* Run.objects.get(ID=id)
RunLoad(id) ==
    /\ call.pc # "second"
    /\ id \in DOMAIN runs
    /\ call' = [NoCall EXCEPT !.pc = "held", !.obj = RunFromRow(id)]
    /\ last' = [op |-> "Run.get", id |-> id, result |-> "ok"]
    /\ UNCHANGED <<meshes, contributors, contributions, images, arks, runs>>

\* After a failed save the caller loads the Run again before retrying.
RunReload ==
    /\ call.pc = "held" /\ call.phase = "failed"
    /\ call.obj.ID \in DOMAIN runs
    /\ call' = [call EXCEPT !.obj = RunFromRow(call.obj.ID), !.same = FALSE]
    /\ last' = [op |-> "Run.get", id |-> call.obj.ID, result |-> "ok"]
    /\ UNCHANGED <<meshes, contributors, contributions, images, arks, runs>>

\* super().save(*args, **kwargs), then the derivation on the object.
RunSaveFirst(now) ==
    /\ call.pc = "held"
    /\ IF RunWriteRefused(call.obj)
       THEN /\ runs' = runs
            /\ call' = call
            /\ last' = [op |-> "Run.save:first", id |-> call.obj.ID,
                        result |-> "IntegrityError"]
       ELSE LET obj == call.obj
                started == RunStartedAt(obj, now)
            IN /\ runs' = Upsert(runs, obj.ID, RunRow(obj, started, obj.directory))
               /\ call' = [call EXCEPT
                             !.pc = "second",
                             !.phase = IF @ = "retried" THEN "fresh" ELSE @,
                             !.derived = obj.directory = <<>>,
                             !.obj = [obj EXCEPT
                                        !.adding = FALSE,
                                        !.started_at = Some(started),
                                        !.directory =
                                            IF @ = <<>>
                                            THEN RunDirectory(obj.mesh, started, obj.ID)
                                            ELSE @]]
               /\ last' = [op |-> "Run.save:first", id |-> obj.ID, result |-> "ok"]
    /\ UNCHANGED <<meshes, contributors, contributions, images, arks>>

\* super().save(update_fields=["directory"]): the UPDATE sets that column only.
RunSecondWriteAllFields(obj) ==
    Upsert(runs, obj.ID, RunRow(obj, obj.started_at[1], obj.directory))
RunSecondWrite(obj) == [runs EXCEPT ![obj.ID].directory = obj.directory]

\* The second write reaches the database: it updates the row, or raises
\* DatabaseError when the row is gone.
RunSaveSecond ==
    /\ call.pc = "second"
    /\ IF call.obj.ID \notin DOMAIN runs
       THEN /\ runs' = runs
            /\ call' = [call EXCEPT !.pc = "held", !.phase = "failed",
                                    !.want = IF call.phase = "failed" THEN @
                                             ELSE Some(call.obj.directory)]
            /\ last' = [op |-> "Run.save:second", id |-> call.obj.ID,
                        result |-> "DatabaseError"]
       ELSE /\ runs' = RunSecondWrite(call.obj)
            /\ call' = [call EXCEPT !.pc = "held",
                                    !.phase = IF @ = "failed" THEN "retried" ELSE @]
            /\ last' = [op |-> "Run.save:second", id |-> call.obj.ID, result |-> "ok"]
    /\ UNCHANGED <<meshes, contributors, contributions, images, arks>>

\* The second write fails (the connection is lost, the statement times out):
\* the exception leaves save(), the first write stays committed.
RunSaveSecondFails ==
    /\ call.pc = "second"
    /\ call' = [call EXCEPT !.pc = "held", !.phase = "failed",
                            !.want = IF call.phase = "failed" THEN @
                                     ELSE Some(call.obj.directory)]
    /\ last' = [op |-> "Run.save:second", id |-> call.obj.ID, result |-> "OperationalError"]
    /\ UNCHANGED <<meshes, contributors, contributions, images, arks, runs>>

\* Another caller's operation ran while this caller holds a Run object: note
\* whether it changed or removed that Run's row.
Disturb ==
    call' = IF /\ call.pc # "idle"
               /\ \/ call.obj.ID \in DOMAIN runs /\ call.obj.ID \notin DOMAIN runs'
                  \/ call.obj.ID \notin DOMAIN runs /\ call.obj.ID \in DOMAIN runs'
                  \/ /\ call.obj.ID \in DOMAIN runs \cap DOMAIN runs'
                     /\ runs'[call.obj.ID] # runs[call.obj.ID]
            THEN [call EXCEPT !.disturbed = TRUE]
            ELSE call

(***************************************************************************)
(* Contributor and Contribution intake                                     *)
(***************************************************************************)
\* Contributor has no save override: Model.save writes the row.
ContributorSave(obj) ==
    /\ IF obj.adding /\ obj.ID \in DOMAIN contributors
       THEN /\ contributors' = contributors
            /\ last' = [op |-> "Contributor.save", id |-> obj.ID, result |-> "IntegrityError"]
       ELSE /\ contributors' = Upsert(contributors, obj.ID,
                                      [active |-> obj.active, banned |-> obj.banned])
            /\ last' = [op |-> "Contributor.save", id |-> obj.ID, result |-> "ok"]
    /\ UNCHANGED <<meshes, contributions, images, arks, runs>>

\* intake(mesh, contributor, images): rejected when the Mesh is completed or
\* the Contributor is banned; otherwise one Contribution and its Images are
\* created.  cid and imgs are the fresh UUIDs of the new rows.
IntakeChecksActive(mesh, contributor, cid, imgs) ==
    /\ mesh \in DOMAIN meshes /\ contributor \in DOMAIN contributors
    /\ cid \notin DOMAIN contributions /\ imgs \cap DOMAIN images = {}
    /\ IF meshes[mesh].completed \/ ~contributors[contributor].active
       THEN /\ UNCHANGED <<contributions, images>>
            /\ last' = [op |-> "intake", mesh |-> mesh, contributor |-> contributor,
                        result |-> "IntakeRejected",
                        reason |-> IF meshes[mesh].completed THEN "mesh closed"
                                   ELSE "contributor banned"]
       ELSE /\ contributions' = Upsert(contributions, cid,
                                       [mesh |-> mesh, contributor |-> contributor,
                                        processed |-> FALSE])
            /\ images' = [i \in DOMAIN images \cup imgs |->
                             IF i \in imgs THEN [contribution |-> cid, label |-> ""]
                             ELSE images[i]]
            /\ last' = [op |-> "intake", mesh |-> mesh, contributor |-> contributor,
                        result |-> "ok", reason |-> ""]
    /\ UNCHANGED <<meshes, contributors, arks, runs>>

Intake(mesh, contributor, cid, imgs) ==
    /\ mesh \in DOMAIN meshes /\ contributor \in DOMAIN contributors
    /\ cid \notin DOMAIN contributions /\ imgs \cap DOMAIN images = {}
    /\ IF meshes[mesh].completed \/ contributors[contributor].banned
       THEN /\ UNCHANGED <<contributions, images>>
            /\ last' = [op |-> "intake", mesh |-> mesh, contributor |-> contributor,
                        result |-> "IntakeRejected",
                        reason |-> IF meshes[mesh].completed THEN "mesh closed"
                                   ELSE "contributor banned"]
       ELSE /\ contributions' = Upsert(contributions, cid,
                                       [mesh |-> mesh, contributor |-> contributor,
                                        processed |-> FALSE])
            /\ images' = [i \in DOMAIN images \cup imgs |->
                             IF i \in imgs THEN [contribution |-> cid, label |-> ""]
                             ELSE images[i]]
            /\ last' = [op |-> "intake", mesh |-> mesh, contributor |-> contributor,
                        result |-> "ok", reason |-> ""]
    /\ UNCHANGED <<meshes, contributors, arks, runs>>

\* Contribution has no save override: Model.save writes the row, and the
\* database refuses a second row with the key or a mesh or contributor
\* reference to a row that does not exist.
ContributionSave(obj) ==
    /\ IF \/ obj.adding /\ obj.ID \in DOMAIN contributions
          \/ obj.mesh \notin DOMAIN meshes
          \/ obj.contributor \notin DOMAIN contributors
       THEN /\ contributions' = contributions
            /\ last' = [op |-> "Contribution.save", id |-> obj.ID,
                        result |-> "IntegrityError"]
       ELSE /\ contributions' = Upsert(contributions, obj.ID,
                                       [mesh |-> obj.mesh, contributor |-> obj.contributor,
                                        processed |-> obj.processed])
            /\ last' = [op |-> "Contribution.save", id |-> obj.ID, result |-> "ok"]
    /\ UNCHANGED <<meshes, contributors, images, arks, runs>>

\* Image has no save override either.
ImageSave(obj) ==
    /\ IF \/ obj.adding /\ obj.ID \in DOMAIN images
          \/ obj.contribution \notin DOMAIN contributions
       THEN /\ images' = images
            /\ last' = [op |-> "Image.save", id |-> obj.ID, result |-> "IntegrityError"]
       ELSE /\ images' = Upsert(images, obj.ID,
                                [contribution |-> obj.contribution, label |-> obj.label])
            /\ last' = [op |-> "Image.save", id |-> obj.ID, result |-> "ok"]
    /\ UNCHANGED <<meshes, contributors, contributions, arks, runs>>

(***************************************************************************)
(* Deletion                                                                *)
(***************************************************************************)
Remove(tbl, keys) == [k \in DOMAIN tbl \ keys |-> tbl[k]]

BoundArks(ids) == {runs[r].ark[1] : r \in {k \in ids : runs[k].ark # None}}

\* Run.ark points from the Run to the ARK: deleting Runs collects nothing on
\* the ARK side, and on_delete=DO_NOTHING leaves Runs alone when an ARK goes.
ArksAfterRunDeleteCascading(ids) == Remove(arks, BoundArks(ids))
ArksAfterRunDelete(ids) == arks

RunDelete(id) ==
    /\ id \in DOMAIN runs
    /\ runs' = Remove(runs, {id})
    /\ arks' = ArksAfterRunDelete({id})
    /\ last' = [op |-> "Run.delete", id |-> id, result |-> "ok", arks |-> BoundArks({id})]
    /\ UNCHANGED <<meshes, contributors, contributions, images>>

\* Without on_delete=CASCADE the collector would take the Mesh row alone.
MeshDeleteNoCascade(id) ==
    /\ id \in DOMAIN meshes
    /\ meshes' = Remove(meshes, {id})
    /\ last' = [op |-> "Mesh.delete", id |-> id, result |-> "ok", arks |-> {},
                cascade |-> [contributions |-> {}, images |-> {}, runs |-> {}]]
    /\ UNCHANGED <<contributors, contributions, images, arks, runs>>

\* Mesh.delete: on_delete=CASCADE on Contribution.mesh, Image.contribution and
\* Run.mesh removes the Mesh's Contributions, their Images and its Runs.
MeshDelete(id) ==
    /\ id \in DOMAIN meshes
    /\ LET cs == {c \in DOMAIN contributions : contributions[c].mesh = id}
           is == {i \in DOMAIN images : images[i].contribution \in cs}
           rs == {r \in DOMAIN runs : runs[r].mesh = id}
       IN /\ meshes' = Remove(meshes, {id})
          /\ contributions' = Remove(contributions, cs)
          /\ images' = Remove(images, is)
          /\ runs' = Remove(runs, rs)
          /\ arks' = ArksAfterRunDelete(rs)
          /\ last' = [op |-> "Mesh.delete", id |-> id, result |-> "ok", arks |-> BoundArks(rs),
                      cascade |-> [contributions |-> cs, images |-> is, runs |-> rs]]
    /\ UNCHANGED contributors

\* Contributor.delete: on_delete=CASCADE on Contribution.contributor and
\* Image.contribution removes the Contributor's Contributions and their Images.
ContributorDelete(id) ==
    /\ id \in DOMAIN contributors
    /\ LET cs == {c \in DOMAIN contributions : contributions[c].contributor = id}
           is == {i \in DOMAIN images : images[i].contribution \in cs}
       IN /\ contributors' = Remove(contributors, {id})
          /\ contributions' = Remove(contributions, cs)
          /\ images' = Remove(images, is)
          /\ last' = [op |-> "Contributor.delete", id |-> id, result |-> "ok",
                      cascade |-> [contributions |-> cs, images |-> is, runs |-> {}]]
    /\ UNCHANGED <<meshes, arks, runs>>

\* Contribution.delete: on_delete=CASCADE on Image.contribution.
ContributionDelete(id) ==
    /\ id \in DOMAIN contributions
    /\ LET is == {i \in DOMAIN images : images[i].contribution = id}
       IN /\ contributions' = Remove(contributions, {id})
          /\ images' = Remove(images, is)
          /\ last' = [op |-> "Contribution.delete", id |-> id, result |-> "ok",
                      cascade |-> [contributions |-> {}, images |-> is, runs |-> {}]]
    /\ UNCHANGED <<meshes, contributors, arks, runs>>

ImageDelete(id) ==
    /\ id \in DOMAIN images
    /\ images' = Remove(images, {id})
    /\ last' = [op |-> "Image.delete", id |-> id, result |-> "ok",
                cascade |-> [contributions |-> {}, images |-> {}, runs |-> {}]]
    /\ UNCHANGED <<meshes, contributors, contributions, arks, runs>>

(***************************************************************************)
(* Initial state: an empty database, no Run object held                    *)
(***************************************************************************)
Empty == [x \in {} |-> None]

Init ==
    /\ meshes = Empty
    /\ contributors = Empty
    /\ contributions = Empty
    /\ images = Empty
    /\ arks = Empty
    /\ runs = Empty
    /\ last = [op |-> "none", result |-> "ok"]
    /\ call = NoCall

(***************************************************************************)
(* SpecArk: the ARK registry alone                                         *)
(***************************************************************************)
ArkNaans == {<<"9">>}
ArkShoulders == {<<"/", "f">>, <<"/", "f", "a">>, <<"f">>}
ArkNames == {<<"a", "b">>, <<"b">>}
ArkStrings == {<<"9", "/", "f", "a", "b">>, <<"9", "/", "f", "b">>, <<"9", "f", "b">>}
ArkUrls == {"u1", "u2"}
ArkMetadata == {"m1"}

\* Objects a caller can hold: freshly constructed (created_at None) or loaded
\* from the table and edited (created_at as stored).
ArkObjs ==
    [ark : ArkStrings, naan : ArkNaans, shoulder : ArkShoulders, assigned_name : ArkNames,
     url : ArkUrls, metadata : ArkMetadata, created_at : {None} \cup {Some(t) : t \in Times}]

ArkHeld(obj) ==
    \/ obj.created_at = None
    \/ \E a \in DOMAIN arks : obj.created_at = Some(arks[a].created_at)

NextArk ==
    \E obj \in ArkObjs, now \in Times :
        ArkHeld(obj) /\ ArkSave(obj, now) /\ UNCHANGED call

SpecArk == Init /\ [][NextArk]_vars

\* C1: every persisted ARK row has ark equal to the exact concatenation
\* naan + shoulder + assigned_name, and a shoulder whose first character is "/",
\* after any sequence of successful and failed ARK.save calls.
C1_ArkConsistent ==
    \A a \in DOMAIN arks :
        /\ a = arks[a].naan \o arks[a].shoulder \o arks[a].assigned_name
        /\ Len(arks[a].shoulder) >= 1
        /\ arks[a].shoulder[1] = "/"

\* A persisted record was loaded, edited and saved again with success, while
\* another record is stored as well.
C1_Witness ==
    /\ last.op = "ARK.save" /\ last.result = "ok"
    /\ last.obj.created_at # None
    /\ last.obj.ark \in DOMAIN arks
    /\ Cardinality(DOMAIN arks) = 2

\* C2: an ARK.save whose shoulder does not start with "/" or whose ark differs
\* from naan + shoulder + assigned_name ends in an error and leaves the ARK
\* table as it was, on a first save and on a later save alike.
C2_InvalidSaveRejected ==
    [][(/\ last'.op = "ARK.save"
        /\ \/ last'.obj.shoulder = <<>>
           \/ Head(last'.obj.shoulder) # "/"
           \/ last'.obj.ark # last'.obj.naan \o last'.obj.shoulder \o last'.obj.assigned_name)
       => (last'.result = "ValueError" /\ arks' = arks)]_vars

\* A later save of an already persisted record, edited to a shoulder without
\* the leading "/", was rejected.
C2_Witness ==
    /\ last.op = "ARK.save" /\ last.result = "ValueError"
    /\ last.obj.created_at # None
    /\ last.obj.ark \in DOMAIN arks
    /\ last.obj.shoulder = <<"f">>

\* C10: once an ARK is persisted under an ark string, no later ARK.save changes
\* the naan, shoulder or assigned_name stored under that ark string.
C10_WriteOnce ==
    [][\A a \in DOMAIN arks :
          a \in DOMAIN arks' =>
              /\ arks'[a].naan = arks[a].naan
              /\ arks'[a].shoulder = arks[a].shoulder
              /\ arks'[a].assigned_name = arks[a].assigned_name]_vars

(***************************************************************************)
(* SpecMesh: Mesh.save alone, over names and states with spaces and        *)
(* underscores; status and the two flags vary over part of their range.    *)
(***************************************************************************)
MeshIDs == {<<"M", "1">>, <<"M", "2">>}
MeshCountries == {<<"I">>}
MeshStates == {<<"O">>, <<"O", " ">>}
MeshDistricts == {<<"K">>}
MeshNames == {<<"L", " ", "T">>, <<"L", "_", "T">>}
MeshStatus == {"Pending", "Processing", "Live", "Error"}

MeshObjs ==
    [ID : MeshIDs, name : MeshNames, country : MeshCountries, state : MeshStates,
     district : MeshDistricts, verbose_id : {DefaultVerboseId, <<"x">>},
     status : {"Pending", "Processing"}, completed : BOOLEAN, hidden : {FALSE},
     thumbnail : BOOLEAN, adding : BOOLEAN]

NextMesh == \E obj \in MeshObjs : MeshSave(obj) /\ UNCHANGED call

SpecMesh == Init /\ [][NextMesh]_vars

\* C6: after every successful Mesh.save the persisted verbose_id is
\* country + "__" + state + "__" + district + "__" + name with every space
\* replaced by an underscore, whatever the caller changed or assigned.
C6_VerboseIdDerived ==
    \A k \in DOMAIN meshes :
        LET raw == meshes[k].country \o <<"_", "_">> \o meshes[k].state \o <<"_", "_">>
                   \o meshes[k].district \o <<"_", "_">> \o meshes[k].name
            vid == meshes[k].verbose_id
        IN /\ Len(vid) = Len(raw)
           /\ \A i \in 1..Len(raw) : vid[i] = (IF raw[i] = " " THEN "_" ELSE raw[i])

\* A loaded Mesh whose name holds a space was saved again, with success, with
\* a verbose_id the caller had assigned.
C6_Witness ==
    /\ last.op = "Mesh.save" /\ last.result = "ok"
    /\ ~last.adding
    /\ last.assigned = <<"x">>
    /\ meshes[last.id].name = <<"L", " ", "T">>
    /\ meshes[last.id].verbose_id = <<"I", "_", "_", "O", "_", "_", "K", "_", "_", "L", "_", "T">>

(***************************************************************************)
(* SpecRun: Runs of two Meshes, with one ARK to bind.  Run R1 ranges over  *)
(* mesh, ark, directory and status; a second Run R2 of Mesh M1 ranges over *)
(* ark and directory.  ended_at stays unset.                               *)
(***************************************************************************)
R1 == <<"R", "1">>
R2 == <<"R", "2">>
M1 == <<"M", "1">>
A1 == <<"9", "/", "f", "b">>
CallerDir == <<"x">>
RunStatus == {"Processing", "Error", "Archived"}

RunMeshObjs ==
    {[ID |-> id, name |-> id, country |-> <<"I">>, state |-> <<"O">>, district |-> <<"K">>,
      verbose_id |-> DefaultVerboseId, status |-> "Pending", completed |-> FALSE,
      hidden |-> FALSE, thumbnail |-> FALSE, adding |-> TRUE] : id \in MeshIDs}

RunArkObjs ==
    {[ark |-> A1, naan |-> <<"9">>, shoulder |-> <<"/", "f">>, assigned_name |-> <<"b">>,
      url |-> "u1", metadata |-> "m1", created_at |-> None]}

\* What a caller does to a Run object before save: the object is new
\* (adding) or loaded from the row with its ID; its directory is left as it
\* is ("keep"), emptied ("clear") or assigned ("assign").
RunEdits ==
    [ID : {R1}, mesh : MeshIDs, ark : {None, Some(A1)}, ended_at : {None},
     dir : {"keep", "clear", "assign"}, status : RunStatus, adding : BOOLEAN]
    \cup
    [ID : {R2}, mesh : {M1}, ark : {None, Some(A1)}, ended_at : {None},
     dir : {"keep", "clear", "assign"}, status : {"Processing"}, adding : BOOLEAN]

RunHeld(e) == IF e.adding THEN e.dir # "keep" ELSE e.ID \in DOMAIN runs

RunObj(e) ==
    [ID |-> e.ID, mesh |-> e.mesh, ark |-> e.ark, ended_at |-> e.ended_at,
     status |-> e.status, adding |-> e.adding,
     started_at |-> IF e.adding THEN None ELSE Some(runs[e.ID].started_at),
     directory |-> CASE e.dir = "keep" -> runs[e.ID].directory
                     [] e.dir = "clear" -> <<>>
                     [] e.dir = "assign" -> CallerDir]

NextRun ==
    \/ \E e \in RunEdits, now \in Times :
          RunHeld(e) /\ RunSave(RunObj(e), now) /\ UNCHANGED call
    \/ \E id \in DOMAIN runs : RunDelete(id) /\ UNCHANGED call
    \/ \E obj \in RunMeshObjs : MeshSave(obj) /\ UNCHANGED call
    \/ \E id \in DOMAIN meshes : MeshDelete(id) /\ UNCHANGED call
    \/ \E obj \in RunArkObjs, now \in Times : ArkSave(obj, now) /\ UNCHANGED call

SpecRun == Init /\ [][NextRun]_vars

\* C3: once a Run's persisted directory is non-empty, no later Run.save of that
\* Run changes the persisted directory, whatever the caller changed on the
\* object (the in-memory directory included).
C3_DirectorySetOnce ==
    [][\A r \in DOMAIN runs :
          (/\ runs[r].directory # <<>>
           /\ last'.op = "Run.save" /\ last'.id = r
           /\ r \in DOMAIN runs')
          => runs'[r].directory = runs[r].directory]_vars

\* C4: deleting a Run, directly or by the cascade from deleting its Mesh, leaves
\* the ARK bound to it in the ARK table, with the same url and metadata.
C4_ArkSurvivesRunDelete ==
    [][\A r \in DOMAIN runs :
          (r \notin DOMAIN runs' /\ runs[r].ark # None)
          => /\ runs[r].ark[1] \in DOMAIN arks'
             /\ arks'[runs[r].ark[1]].url = arks[runs[r].ark[1]].url
             /\ arks'[runs[r].ark[1]].metadata = arks[runs[r].ark[1]].metadata]_vars

\* A Mesh was deleted, its Run went with it, and the ARK that Run was bound to
\* is still stored.
C4_Witness ==
    /\ last.op = "Mesh.delete"
    /\ last.arks = {A1}
    /\ A1 \in DOMAIN arks
    /\ \A r \in DOMAIN runs : runs[r].ark # Some(A1)

\* C5: every persisted Run with status Archived has a bound ARK (a Run.save that
\* would persist Archived with ark unset fails).
C5_ArchivedHasArk ==
    \A r \in DOMAIN runs : runs[r].status = "Archived" => runs[r].ark # None

\* C8: after the first successful save of a Run created with an empty
\* directory, the persisted directory is
\* {MeshID}/cache/{YYYY-MM-DD-HH-MM-SS}__{RunID}, from the ID of the Run's Mesh,
\* the Run's started_at and the Run's ID.
C8_DirectoryDerived ==
    (last.op = "Run.save" /\ last.result = "ok" /\ last.inserted /\ last.dirEmpty)
    => LET r == runs[last.id]
           t == r.started_at
           d2(n) == <<Digits[(n \div 10) + 1], Digits[(n % 10) + 1]>>
           d4(n) == d2(n \div 100) \o d2(n % 100)
       IN r.directory =
              r.mesh \o <<"/", "c", "a", "c", "h", "e", "/">>
              \o d4(t.Y) \o <<"-">> \o d2(t.M) \o <<"-">> \o d2(t.D) \o <<"-">>
              \o d2(t.h) \o <<"-">> \o d2(t.m) \o <<"-">> \o d2(t.s)
              \o <<"_", "_">> \o last.id

\* Run R1 of Mesh M1, created with an empty directory at 2024-03-02 10:15:00,
\* was saved and holds M1/cache/2024-03-02-10-15-00__R1.
C8_Witness ==
    /\ last.op = "Run.save" /\ last.result = "ok" /\ last.inserted /\ last.dirEmpty
    /\ last.id = R1
    /\ runs[R1].mesh = M1
    /\ runs[R1].started_at = T1
    /\ runs[R1].directory =
           <<"M", "1", "/", "c", "a", "c", "h", "e", "/", "2", "0", "2", "4", "-", "0", "3",
             "-", "0", "2", "-", "1", "0", "-", "1", "5", "-", "0", "0", "_", "_", "R", "1">>

\* C9: any two distinct persisted Runs with non-empty directories have different
\* directories.
C9_DirectoriesDistinct ==
    \A ra \in DOMAIN runs, rb \in DOMAIN runs :
        (ra # rb /\ runs[ra].directory # <<>> /\ runs[rb].directory # <<>>)
        => runs[ra].directory # runs[rb].directory

(***************************************************************************)
(* SpecIntake: two Meshes that are opened and completed, two Contributors  *)
(* that are banned and deactivated, and intake against them.               *)
(***************************************************************************)
ContributorIDs == {"p1", "p2"}
ContributionIDs == {"c1", "c2"}
ImageIDs == {"i1", "i2"}

IntakeMeshObjs ==
    {[ID |-> id, name |-> id, country |-> <<"I">>, state |-> <<"O">>, district |-> <<"K">>,
      verbose_id |-> DefaultVerboseId, status |-> "Pending", completed |-> c,
      hidden |-> FALSE, thumbnail |-> FALSE, adding |-> a]
     : id \in MeshIDs, c \in BOOLEAN, a \in BOOLEAN}

ContributorObjs ==
    [ID : {"p1"}, active : BOOLEAN, banned : BOOLEAN, adding : BOOLEAN]
    \cup [ID : {"p2"}, active : {TRUE}, banned : BOOLEAN, adding : BOOLEAN]

NextIntake ==
    \/ \E obj \in IntakeMeshObjs : MeshSave(obj) /\ UNCHANGED call
    \/ \E obj \in ContributorObjs : ContributorSave(obj) /\ UNCHANGED call
    \/ \E mesh \in MeshIDs, contributor \in ContributorIDs, cid \in ContributionIDs,
          imgs \in SUBSET ImageIDs :
          Intake(mesh, contributor, cid, imgs) /\ UNCHANGED call
    \/ \E id \in DOMAIN meshes : MeshDelete(id) /\ UNCHANGED call

SpecIntake == Init /\ [][NextIntake]_vars

\* C7: intake against a completed Mesh, or by a banned Contributor whatever
\* its active flag, is rejected with IntakeRejected and creates no Contribution
\* and no Image; every Contribution that appears was created while its Mesh was
\* not completed and its Contributor not banned.
C7_IntakeGated ==
    [][/\ (/\ last'.op = "intake"
           /\ \/ meshes[last'.mesh].completed
              \/ contributors[last'.contributor].banned)
          => /\ last'.result = "IntakeRejected"
             /\ contributions' = contributions
             /\ images' = images
       /\ \A c \in DOMAIN contributions' \ DOMAIN contributions :
             /\ ~meshes[contributions'[c].mesh].completed
             /\ ~contributors[contributions'[c].contributor].banned]_vars

\* A banned Contributor that is still active was turned away from an open
\* Mesh that already holds a Contribution.
C7_Witness ==
    /\ last.op = "intake" /\ last.result = "IntakeRejected"
    /\ last.reason = "contributor banned"
    /\ contributors[last.contributor].banned /\ contributors[last.contributor].active
    /\ ~meshes[last.mesh].completed
    /\ \E c \in DOMAIN contributions : contributions[c].mesh = last.mesh

\* C11: no two persisted Meshes share a verbose_id, also when their country,
\* state, district and name differ but give the same slug; a Mesh.save that
\* ends in the uniqueness violation leaves the Mesh table as it was.
C11_VerboseIdUnique ==
    [][/\ \A ka \in DOMAIN meshes', kb \in DOMAIN meshes' :
             ka # kb => meshes'[ka].verbose_id # meshes'[kb].verbose_id
       /\ (last'.op = "Mesh.save" /\ last'.result = "IntegrityError")
          => meshes' = meshes]_vars

\* A loaded Mesh was saved under the name "L_T" while another stored Mesh named
\* "L T" holds the slug that name gives, and the save was refused.
C11_Witness ==
    /\ last.op = "Mesh.save" /\ last.result = "IntegrityError" /\ ~last.adding
    /\ last.name = <<"L", "_", "T">>
    /\ \E k \in DOMAIN meshes :
          /\ k # last.id
          /\ meshes[k].name = <<"L", " ", "T">>
          /\ meshes[k].verbose_id = last.vid

\* C12: once a persisted Run has an ark, no later Run.save sets that Run's
\* persisted ark to null or to another ARK.
C12_ArkBoundOnce ==
    [][\A r \in DOMAIN runs :
          (runs[r].ark # None /\ last'.op = "Run.save" /\ r \in DOMAIN runs')
          => runs'[r].ark = runs[r].ark]_vars

\* C13: a newly created Run is persisted as Processing, and once a Run's
\* persisted status is Error or Archived no later Run.save changes it.
C13_RunStatusTerminal ==
    [][last'.op = "Run.save"
       => /\ \A r \in DOMAIN runs' \ DOMAIN runs : runs'[r].status = "Processing"
          /\ \A r \in DOMAIN runs \cap DOMAIN runs' :
                runs[r].status \in {"Error", "Archived"}
                => runs'[r].status = runs[r].status]_vars

\* C14: neither Mesh.save nor deleting a Mesh removes a Run of that Mesh whose
\* status is Archived.
C14_ArchivedRunsKept ==
    [][last'.op \in {"Mesh.save", "Mesh.delete"}
       => \A r \in DOMAIN runs :
             (runs[r].status = "Archived" /\ runs[r].mesh = last'.id)
             => r \in DOMAIN runs']_vars

\* C18: no two persisted Runs reference the same ARK, and a Run.save that the
\* database refuses leaves the Run table as it was.
C18_RunArkOneToOne ==
    [][/\ \A ra \in DOMAIN runs', rb \in DOMAIN runs' :
             (ra # rb /\ runs'[ra].ark # None) => runs'[ra].ark # runs'[rb].ark
       /\ (last'.op = "Run.save" /\ last'.result = "IntegrityError")
          => runs' = runs]_vars

\* Run R1 is bound to ARK A1; a new Run R2 of the existing Mesh M1 was saved
\* and refused, which only the ARK already bound to R1 can cause.
C18_Witness ==
    /\ last.op = "Run.save" /\ last.result = "IntegrityError" /\ last.id = R2
    /\ R2 \notin DOMAIN runs
    /\ M1 \in DOMAIN meshes
    /\ R1 \in DOMAIN runs /\ runs[R1].ark = Some(A1)

(***************************************************************************)
(* SpecMeshStatus: Mesh.save over every status and both flags, with fixed  *)
(* names.                                                                  *)
(***************************************************************************)
MeshStatusObjs ==
    {[ID |-> id, name |-> id, country |-> <<"I">>, state |-> <<"O">>, district |-> <<"K">>,
      verbose_id |-> DefaultVerboseId, status |-> st, completed |-> c,
      hidden |-> h, thumbnail |-> FALSE, adding |-> a]
     : id \in MeshIDs, st \in MeshStatus, c \in BOOLEAN, h \in BOOLEAN, a \in BOOLEAN}

NextMeshStatus == \E obj \in MeshStatusObjs : MeshSave(obj) /\ UNCHANGED call

SpecMeshStatus == Init /\ [][NextMeshStatus]_vars

\* C15: a Mesh is first persisted as Pending, and a Mesh.save changes the
\* persisted status only along Pending -> Processing, Processing -> Live,
\* Processing -> Error and Error -> Processing.
C15_MeshStatusEdges ==
    [][last'.op = "Mesh.save"
       => /\ \A k \in DOMAIN meshes' \ DOMAIN meshes : meshes'[k].status = "Pending"
          /\ \A k \in DOMAIN meshes \cap DOMAIN meshes' :
                \/ meshes'[k].status = meshes[k].status
                \/ <<meshes[k].status, meshes'[k].status>> \in
                       {<<"Pending", "Processing">>, <<"Processing", "Live">>,
                        <<"Processing", "Error">>, <<"Error", "Processing">>}]_vars

(***************************************************************************)
(* SpecRunSteps: one caller's Run.save taken write by write, with other    *)
(* callers saving and deleting the same Run in between                     *)
(***************************************************************************)
StepNewRuns ==
    {[ID |-> R1, mesh |-> M1, ark |-> None, started_at |-> None, ended_at |-> None,
      directory |-> d, status |-> "Processing", adding |-> TRUE] : d \in {<<>>, CallerDir}}

StepMeshObjs == {obj \in RunMeshObjs : obj.ID = M1}

\* The other callers load the Run, change status, ark or ended_at, and save.
StepEdits ==
    [ID : {R1}, mesh : {M1}, ark : {None, Some(A1)}, ended_at : {None, Some(T2)},
     dir : {"keep"}, status : RunStatus, adding : {FALSE}]

NextRunSteps ==
    \/ \E obj \in StepNewRuns : RunConstruct(obj)
    \/ \E id \in DOMAIN runs : RunLoad(id)
    \/ RunReload
    \/ \E now \in Times : RunSaveFirst(now)
    \/ RunSaveSecond
    \/ RunSaveSecondFails
    \/ \E e \in StepEdits : RunHeld(e) /\ RunSave(RunObj(e), T1) /\ Disturb
    \/ \E id \in DOMAIN runs : RunDelete(id) /\ Disturb
    \/ \E obj \in StepMeshObjs : MeshSave(obj) /\ UNCHANGED call
    \/ \E obj \in RunArkObjs : ArkSave(obj, T1) /\ UNCHANGED call

SpecRunSteps == Init /\ [][NextRunSteps]_vars

\* C16: when the first write of a Run.save succeeded and the second failed, a
\* retry of Run.save, on the same object or on the Run loaded again, derives no
\* path and leaves the directory that the failed call was about to persist (no
\* other caller having written the Run meanwhile).
C16_RetryIdempotent ==
    (call.phase = "retried" /\ ~call.disturbed)
    => /\ ~call.derived
       /\ call.obj.ID \in DOMAIN runs
       /\ runs[call.obj.ID].directory = call.want[1]

\* C17: the second write of Run.save changes the directory of the saved Run
\* and nothing else: every other field of that row and every other row are as
\* they were just before it, whatever other callers committed after the first
\* write.
C17_SecondWriteDirectoryOnly ==
    [][(last'.op = "Run.save:second" /\ last'.result = "ok")
       => /\ DOMAIN runs' = DOMAIN runs
          /\ \A r \in DOMAIN runs :
                IF r = last'.id
                THEN /\ [runs'[r] EXCEPT !.directory = runs[r].directory] = runs[r]
                     /\ runs'[r].directory = call.obj.directory
                ELSE runs'[r] = runs[r]]_vars

\* Another caller archived the Run with an ARK and an end time between the two
\* writes, and the second write left all three in place.
C17_Witness ==
    /\ last.op = "Run.save:second" /\ last.result = "ok"
    /\ call.obj.ID \in DOMAIN runs
    /\ call.obj.status = "Processing" /\ call.obj.ark = None /\ call.obj.ended_at = None
    /\ runs[call.obj.ID].status = "Archived"
    /\ runs[call.obj.ID].ark = Some(A1)
    /\ runs[call.obj.ID].ended_at = Some(T2)
    /\ runs[call.obj.ID].directory = call.obj.directory

(***************************************************************************)
(* SpecCascade: creation and deletion of Meshes, Contributors,             *)
(* Contributions, Images and Runs                                          *)
(***************************************************************************)
CascadeContributorObjs ==
    [ID : ContributorIDs, active : {TRUE}, banned : {FALSE}, adding : {TRUE}]

CascadeContributionObjs ==
    [ID : ContributionIDs, mesh : MeshIDs, contributor : ContributorIDs,
     processed : {FALSE}, adding : BOOLEAN]

CascadeImageObjs ==
    [ID : ImageIDs, contribution : ContributionIDs, label : {""}, adding : BOOLEAN]

CascadeRunEdits ==
    [ID : {R1}, mesh : MeshIDs, ark : {None}, ended_at : {None},
     dir : {"keep", "clear"}, status : {"Processing"}, adding : BOOLEAN]

NextCascade ==
    \/ \E obj \in RunMeshObjs : MeshSave(obj) /\ UNCHANGED call
    \/ \E obj \in CascadeContributorObjs : ContributorSave(obj) /\ UNCHANGED call
    \/ \E obj \in CascadeContributionObjs : ContributionSave(obj) /\ UNCHANGED call
    \/ \E obj \in CascadeImageObjs : ImageSave(obj) /\ UNCHANGED call
    \/ \E e \in CascadeRunEdits : RunHeld(e) /\ RunSave(RunObj(e), T1) /\ UNCHANGED call
    \/ \E id \in DOMAIN meshes : MeshDelete(id) /\ UNCHANGED call
    \/ \E id \in DOMAIN contributors : ContributorDelete(id) /\ UNCHANGED call
    \/ \E id \in DOMAIN contributions : ContributionDelete(id) /\ UNCHANGED call
    \/ \E id \in DOMAIN images : ImageDelete(id) /\ UNCHANGED call
    \/ \E id \in DOMAIN runs : RunDelete(id) /\ UNCHANGED call

SpecCascade == Init /\ [][NextCascade]_vars

\* C19: every persisted Contribution references a persisted Mesh and a
\* persisted Contributor, every persisted Image a persisted Contribution, and
\* every persisted Run a persisted Mesh.
C19_ReferentialIntegrity ==
    /\ \A c \in DOMAIN contributions :
          /\ contributions[c].mesh \in DOMAIN meshes
          /\ contributions[c].contributor \in DOMAIN contributors
    /\ \A i \in DOMAIN images : images[i].contribution \in DOMAIN contributions
    /\ \A r \in DOMAIN runs : runs[r].mesh \in DOMAIN meshes

\* A Mesh was deleted together with a Contribution, an Image and a Run of its
\* own, while a Contribution and an Image of another Mesh stay.
C19_Witness ==
    /\ last.op = "Mesh.delete" /\ last.id \notin DOMAIN meshes
    /\ last.cascade.contributions # {} /\ last.cascade.images # {}
    /\ last.cascade.runs # {}
    /\ DOMAIN contributions # {} /\ DOMAIN images # {}

====
